---- MODULE Spec2Model ----
(***************************************************************************)
(* A model of SecureLogger (src/logger.py): the encrypted audit-log        *)
(* pipeline.  The state is the logger's key, the wall clock, and the       *)
(* three storage areas logs/raw, logs/encrypted and logs/keys.             *)
(*                                                                         *)
(* Representation.                                                         *)
(*   - The wall clock is an integer tick (the clock's resolution); a       *)
(*     calendar day is DayLen ticks.  `now` is LOCAL time; UTC time is     *)
(*     now - utcOffset.                                                    *)
(*   - A Fernet token is a record [kind, key, pt, mac]: decryption under   *)
(*     key k succeeds iff the token was made under k and its mac is        *)
(*     intact.  A str/bytes value that holds ciphertext is a sequence of   *)
(*     such items ("" is the empty sequence).                              *)
(*   - A JSON text is a record [members, closed]: the sequence of          *)
(*     <<key, value>> members in insertion order, and whether the text is  *)
(*     complete.  A text cut short (closed = FALSE) does not parse.        *)
(*   - sha256(s).hexdigest()[:12] is the token "sha256:" \o s: a function  *)
(*     of s alone (collisions between different strings are not modelled). *)
(*   - A file name of logs/raw or logs/encrypted is [stem, ext]; a stem    *)
(*     >= 0 is the day number printed as %Y-%m-%d, the stem -1 is a text   *)
(*     that is no date ("notes").  A file name of logs/keys is             *)
(*     [pre, stamp, ext] likewise.                                         *)
(*   - What read_logs returns in a state is ReadEncrypted / ReadRaw of     *)
(*     that state; `raised` keeps only whether the last operation raised.  *)
(*   - A user_data dict is a record of its keys; the keys it maps to None  *)
(*     are listed under "nulls".                                           *)
(*                                                                         *)
(* Specifications.  Spec: one caller at a time, with the environment's     *)
(* faults.  SpecAnon: the same logger fed with user records that exercise  *)
(* the anonymizer.  SpecConc: log_event run by concurrent callers, one     *)
(* file write per step.                                                    *)
(***************************************************************************)
EXTENDS Integers, Sequences, FiniteSets, TLC

VARIABLES
    now,        \* local wall clock (ticks)
    utcOffset,  \* local time minus UTC (ticks); fixed for a run
    key,        \* self.key of the active SecureLogger
    rawFiles,   \* logs/raw:       file name -> sequence of lines
    encFiles,   \* logs/encrypted: file name -> sequence of byte items
    keyFiles,   \* logs/keys:      file name -> key bytes
    raised,     \* the exception the last operation raised ("" when it returned)
    calls,      \* history: the log_event calls made so far
    budget      \* history: constructions made, rare events so far

vars == <<now, utcOffset, key, rawFiles, encFiles, keyFiles, raised, calls, budget>>

----------------------------------------------------------------------------
(* Bounds of the model. *)

MaxTime == 4        \* the clock stops at this tick
DayLen == 3         \* ticks per calendar day
MaxElapse == 1      \* ticks that may pass inside one log_event call
MaxCalls == 2       \* log_event calls per run
MaxDays == 1        \* largest `days` handed to cleanup_old_logs
MaxRare == 1        \* rare events per run: a further construction, a failed
                    \* write, a damaged record, a file that is not the logger's

Keys == {"k1", "k2"}
UtcOffsets == {-1}

----------------------------------------------------------------------------
(* Python values. *)

\* dict.get(k, default)
Get(d, k, default) == IF k \in DOMAIN d THEN d[k] ELSE default

\* d[k] is None: a dict lists under "nulls" the keys it maps to None.
IsNull(d, k) == "nulls" \in DOMAIN d /\ k \in d.nulls

\* An optional mapping: None, or a dict given by its items in insertion order.
PyNone == [is_none |-> TRUE, items |-> <<>>]
PyDict(items) == [is_none |-> FALSE, items |-> items]
\* bool(additional_data): None and {} are falsy.
Truthy(ad) == ~ad.is_none /\ Len(ad.items) > 0
\* additional_data or {}
OrEmpty(ad) == IF Truthy(ad) THEN ad.items ELSE <<>>

----------------------------------------------------------------------------
(* Anonymizer (logger.py 33-37). *)

\* hashlib.sha256(data.encode()).hexdigest()[:12]
Sha256Hex12(data) == "sha256:" \o data

Anonymize(data) == IF data = "" THEN "anonymous" ELSE Sha256Hex12(data)

\* self._anonymize(user_data.get(k, '')): `not data` holds for None as for ''.
AnonymizeGet(user_data, k) ==
    IF IsNull(user_data, k) THEN "anonymous" ELSE Anonymize(Get(user_data, k, ""))

----------------------------------------------------------------------------
(* Cipher: cryptography.fernet as the logger uses it. *)

\* fernet.encrypt(pt) under key k: the bytes of one token.
Encrypt(k, pt) == << [kind |-> "token", key |-> k, pt |-> pt, mac |-> "ok"] >>

\* fernet.decrypt(data) under key k: InvalidToken unless data is exactly one
\* token made under k with its mac intact.
DecryptOk(k, data) ==
    /\ Len(data) = 1
    /\ data[1].kind = "token"
    /\ data[1].key = k
    /\ data[1].mac = "ok"

DecryptPt(data) == data[1].pt

\* The record separator b'\n---RECORD---\n' of the encrypted stream.
Delim == [kind |-> "delim"]

----------------------------------------------------------------------------
(* json.dumps / json.loads. *)

EntryKeys ==
    <<"timestamp", "event_id", "event_type", "user", "metadata", "content",
      "additional_data">>

\* The keys of dict d in insertion order.
KeyOrder(d) == SelectSeq(EntryKeys, LAMBDA k : k \in DOMAIN d)

\* json.dumps of a dict given by its items.
JsonDumpsItems(items) == [members |-> items, closed |-> TRUE]

\* json.dumps(d) of a log entry (or its redacted copy).
JsonDumps(d) ==
    JsonDumpsItems([i \in 1..Len(KeyOrder(d)) |-> <<KeyOrder(d)[i], d[KeyOrder(d)[i]]>>])

\* str.strip() of a line is empty.
IsBlank(text) == Len(text.members) = 0 /\ ~text.closed

\* json.loads(text) raises JSONDecodeError unless the text is complete.
JsonLoadsOk(text) == text.closed

\* json.loads(text): the dict of the members (a later member wins).
JsonLoads(text) ==
    LET ms == text.members
        last(k) == CHOOSE i \in 1..Len(ms) :
                      /\ ms[i][1] = k
                      /\ \A j \in (i+1)..Len(ms) : ms[j][1] # k
    IN  [k \in {ms[i][1] : i \in 1..Len(ms)} |-> ms[last(k)][2]]

----------------------------------------------------------------------------
(* Clock and file names. *)

\* datetime.now().strftime("%Y-%m-%d"): the local calendar day of tick t.
DateStr(t) == t \div DayLen

\* datetime.strptime(date, '%Y-%m-%d'): midnight of that day, in ticks.
Midnight(day) == day * DayLen

\* datetime.utcnow() when the local clock shows t.
UtcOf(t) == t - utcOffset

\* f'logs/raw/{date_str}.ndjson' and f'logs/encrypted/{date_str}.enc'
RawName(day) == [stem |-> day, ext |-> ".ndjson"]
EncName(day) == [stem |-> day, ext |-> ".enc"]

\* f"logs/keys/key_{now:%Y%m%d_%H%M%S}.key"
KeyName(t) == [pre |-> "key_", stamp |-> t, ext |-> ".key"]

\* strptime succeeds on the stem (it raises ValueError otherwise).
ParsesAsDate(stem) == stem >= 0

----------------------------------------------------------------------------
(* log_event (logger.py 39-79): building the entry. *)

\* str(user_data.get('id', ''))
IdStr(user_data) ==
    IF IsNull(user_data, "id") THEN "None"
    ELSE IF "id" \in DOMAIN user_data THEN ToString(user_data.id) ELSE ""

\* f"{datetime.now().timestamp()}{user_data.get('id', '')}" read at local tick t
EventIdSeed(t, user_data) == ToString(UtcOf(t)) \o IdStr(user_data)

\* The "content" field: ciphertext of the text, or "" for no content.
ContentField(k, content) ==
    IF content # "" THEN Encrypt(k, content) ELSE <<>>

\* The "additional_data" field: ciphertext of the serialized mapping, or "".
AdditionalField(k, ad) ==
    IF Truthy(ad) THEN Encrypt(k, JsonDumpsItems(OrEmpty(ad))) ELSE <<>>

\* log_entry, with the clock read at t1 (line 56) and t2 (line 57).
BuildEntry(k, t1, t2, event_type, user_data, content, ad) ==
    [ timestamp |-> UtcOf(t1),
      event_id |-> Anonymize(EventIdSeed(t2, user_data)),
      event_type |-> event_type,
      user |-> [ id_anon |-> Anonymize(IdStr(user_data)),
                 username_anon |-> AnonymizeGet(user_data, "username"),
                 first_name_anon |-> AnonymizeGet(user_data, "first_name"),
                 last_name_anon |-> AnonymizeGet(user_data, "last_name"),
                 language_code |-> Get(user_data, "language_code", ""),
                 is_bot |-> Get(user_data, "is_bot", FALSE) ],
      metadata |-> [ platform |-> "telegram",
                     client |-> Get(user_data, "client", "unknown"),
                     source |-> Get(user_data, "source", "unknown") ],
      content |-> ContentField(k, content),
      additional_data |-> AdditionalField(k, ad) ]

----------------------------------------------------------------------------
(* _save_log (logger.py 81-96): what is written. *)

\* A redaction that forgets to pop "additional_data".
SafeEntryKeepsAdditionalData(e) == [f \in DOMAIN e \ {"content"} |-> e[f]]

\* safe_log_entry: the copy with "content" and "additional_data" popped.
SafeEntry(e) == [f \in DOMAIN e \ {"content", "additional_data"} |-> e[f]]

\* The line appended to the redacted file.
RawLine(e) == JsonDumps(SafeEntry(e))

\* A record written without the separator after it.
EncRecordWithoutDelim(k, e) == Encrypt(k, JsonDumps(e))

\* The bytes appended to the encrypted file.
EncRecord(k, e) == Encrypt(k, JsonDumps(e)) \o <<Delim>>

\* A file opened with 'w': what it held is dropped.
AppendFileTruncates(files, name, data) ==
    [n \in DOMAIN files \cup {name} |-> IF n = name THEN data ELSE files[n]]

\* open(name, 'a') and write: the file is created when it is missing.
AppendFile(files, name, data) ==
    IF name \in DOMAIN files
    THEN [files EXCEPT ![name] = @ \o data]
    ELSE [n \in DOMAIN files \cup {name} |->
            IF n = name THEN data ELSE files[n]]

\* _save_log(log_entry) with the clock read at t (line 83).  io names the
\* write that fails with an OSError, if any: the redacted file is written
\* first, the encrypted file second, and nothing undoes the first write.
SaveLog(k, raw, enc, t, e, io) ==
    LET day == DateStr(t)
        raw1 == AppendFile(raw, RawName(day), <<RawLine(e)>>)
        enc1 == AppendFile(enc, EncName(day), EncRecord(k, e))
    IN  CASE io = "raw_fails" -> [raw |-> raw, enc |-> enc, raised |-> "OSError"]
          [] io = "enc_fails" -> [raw |-> raw1, enc |-> enc, raised |-> "OSError"]
          [] OTHER -> [raw |-> raw1, enc |-> enc1, raised |-> ""]

----------------------------------------------------------------------------
(* cleanup_old_logs (logger.py 141-171). *)

\* cutoff_date = datetime.now() - timedelta(days=days)
Cutoff(t, days) == t - days * DayLen

\* Lines 148-152 and 155-159: the names of one log area with suffix ext that
\* the loop looks at, those whose date does not parse (strptime raises
\* ValueError, which nothing catches) and those it removes.
Looked(files, ext) == {n \in DOMAIN files : n.ext = ext}
Unparsed(files, ext) == {n \in Looked(files, ext) : ~ParsesAsDate(n.stem)}
\* A purge that knows the redacted files only.
ExpiredRedactedOnly(files, ext, cutoff) ==
    {n \in Looked(files, ext) :
        ParsesAsDate(n.stem) /\ Midnight(n.stem) < cutoff /\ ext = ".ndjson"}

\* A comparison that also removes the file dated exactly at the cutoff.
ExpiredInclusive(files, ext, cutoff) ==
    {n \in Looked(files, ext) : ParsesAsDate(n.stem) /\ Midnight(n.stem) <= cutoff}

Expired(files, ext, cutoff) ==
    {n \in Looked(files, ext) : ParsesAsDate(n.stem) /\ Midnight(n.stem) < cutoff}

\* Lines 162-171: key files; an unparsable stamp is skipped (except ValueError).
ExpiredKeys(files, cutoff) ==
    {n \in DOMAIN files :
        /\ n.pre = "key_"
        /\ n.ext = ".key"
        /\ ParsesAsDate(n.stamp)
        /\ n.stamp < cutoff}

\* os.remove of the names in gone.
Remove(files, gone) == [n \in DOMAIN files \ gone |-> files[n]]

----------------------------------------------------------------------------
(* read_logs (logger.py 98-135). *)

\* content.split(b'\n---RECORD---\n')
RECURSIVE Split(_)
Split(items) ==
    IF \A i \in 1..Len(items) : items[i].kind # "delim"
    THEN <<items>>
    ELSE LET p == CHOOSE i \in 1..Len(items) :
                    /\ items[i].kind = "delim"
                    /\ \A j \in 1..(i-1) : items[j].kind # "delim"
         IN  <<SubSeq(items, 1, p - 1)>> \o Split(SubSeq(items, p + 1, Len(items)))

\* One chunk decrypts and parses (the try block of lines 121-123 completes).
RecordOk(k, record) ==
    /\ DecryptOk(k, record)
    /\ JsonLoadsOk(DecryptPt(record))

\* A loop that ends at the first chunk that fails.
RECURSIVE ReadRecordsStopsAtBad(_, _)
ReadRecordsStopsAtBad(k, records) ==
    IF records = <<>> THEN <<>>
    ELSE LET record == Head(records)
         IN  IF Len(record) = 0 THEN ReadRecordsStopsAtBad(k, Tail(records))
             ELSE IF RecordOk(k, record)
                  THEN <<JsonLoads(DecryptPt(record))>>
                          \o ReadRecordsStopsAtBad(k, Tail(records))
                  ELSE <<>>

\* The loop of lines 119-125: a chunk that fails is reported and skipped.
RECURSIVE ReadRecords(_, _)
ReadRecords(k, records) ==
    IF records = <<>> THEN <<>>
    ELSE LET record == Head(records)
             rest == ReadRecords(k, Tail(records))
         IN  IF Len(record) = 0 THEN rest
             ELSE IF RecordOk(k, record)
                  THEN <<JsonLoads(DecryptPt(record))>> \o rest
                  ELSE rest

\* read_logs(date_str, decrypt=True)
ReadEncrypted(k, files, day) ==
    IF EncName(day) \in DOMAIN files
    THEN [raised |-> "", logs |-> ReadRecords(k, Split(files[EncName(day)]))]
    ELSE [raised |-> "", logs |-> <<>>]

\* A loop that puts each entry in front of the ones read before it.
RECURSIVE ReadLinesNewestFirst(_)
ReadLinesNewestFirst(lines) ==
    IF lines = <<>> THEN [raised |-> "", logs |-> <<>>]
    ELSE LET line == Head(lines)
             rest == ReadLinesNewestFirst(Tail(lines))
         IN  IF IsBlank(line) THEN rest
             ELSE IF ~JsonLoadsOk(line)
                  THEN [raised |-> "JSONDecodeError", logs |-> <<>>]
                  ELSE IF rest.raised = ""
                       THEN [raised |-> "", logs |-> rest.logs \o <<JsonLoads(line)>>]
                       ELSE rest

\* The loop of lines 131-133: json.loads of a malformed line raises, and
\* nothing catches it.
RECURSIVE ReadLines(_)
ReadLines(lines) ==
    IF lines = <<>> THEN [raised |-> "", logs |-> <<>>]
    ELSE LET line == Head(lines)
             rest == ReadLines(Tail(lines))
         IN  IF IsBlank(line) THEN rest
             ELSE IF ~JsonLoadsOk(line)
                  THEN [raised |-> "JSONDecodeError", logs |-> <<>>]
                  ELSE IF rest.raised = ""
                       THEN [raised |-> "", logs |-> <<JsonLoads(line)>> \o rest.logs]
                       ELSE rest

\* read_logs(date_str, decrypt=False)
ReadRaw(files, day) ==
    IF RawName(day) \in DOMAIN files
    THEN ReadLines(files[RawName(day)])
    ELSE [raised |-> "", logs |-> <<>>]

----------------------------------------------------------------------------
(* Inputs. *)

Alice == [id |-> 7, username |-> "alice", first_name |-> "A", last_name |-> "B",
          language_code |-> "en", is_bot |-> FALSE]
IdOnly == [id |-> 8]

\* The (event_type, user_data, content, additional_data) of a call.
Inputs ==
    { [event_type |-> "message", user |-> Alice, content |-> "hello",
       ad |-> PyDict(<< <<"test_field", "test_value">> >>)],
      [event_type |-> "message", user |-> Alice, content |-> "", ad |-> PyNone],
      [event_type |-> "error", user |-> IdOnly, content |-> "hi",
       ad |-> PyDict(<<>>)] }

Days == 0..(MaxTime \div DayLen)

\* User records that exercise the anonymizer: a field that is missing, empty,
\* None, or given; the same raw value in two records.
NullId == [nulls |-> {"id"}, username |-> "alice"]
NullName == [id |-> 7, nulls |-> {"username", "first_name", "last_name"}]
EmptyName == [id |-> 8, username |-> ""]
AnonUsers == {Alice, IdOnly, NullId, NullName, EmptyName}
AnonInputs ==
    { [event_type |-> "message", user |-> u, content |-> "", ad |-> PyNone] :
         u \in AnonUsers }

\* Names that something other than the logger may leave in an area.
ForeignLogNames(ext) == {[stem |-> -1, ext |-> ext], [stem |-> -1, ext |-> ".txt"]}
ForeignKeyNames == {[pre |-> "key_", stamp |-> -1, ext |-> ".key"]}


----------------------------------------------------------------------------
(* The state after `logger = SecureLogger()` (logger.py 174). *)

Init ==
    /\ now = 0
    /\ utcOffset \in UtcOffsets
    /\ key = "k1"
    /\ rawFiles = <<>>
    /\ encFiles = <<>>
    /\ keyFiles = (KeyName(0) :> key)
    /\ raised = ""
    /\ calls = <<>>
    /\ budget = [constructs |-> 0, rare |-> 0]

----------------------------------------------------------------------------
(* Operations. *)

\* The wall clock advances.
Tick ==
    /\ now < MaxTime
    /\ now' = now + 1
    /\ UNCHANGED <<utcOffset, key, rawFiles, encFiles, keyFiles, raised, calls, budget>>

\* setup_dirs (logger.py 22-31) with the clock at t: open(key_file, 'wb')
\* creates the file or truncates the one of that name.
SetupDirs(files, t, k) ==
    [n \in DOMAIN files \cup {KeyName(t)} |-> IF n = KeyName(t) THEN k ELSE files[n]]

\* SecureLogger(key=arg) (logger.py 8-20).  With no key (None or "") a key is
\* generated; Fernet(key) raises ValueError on a key that is no Fernet key,
\* before anything is written.
Construct(arg, generated) ==
    /\ budget.rare < MaxRare
    /\ budget' = [budget EXCEPT !.constructs = @ + 1, !.rare = @ + 1]
    /\ LET k == IF arg # "" THEN arg ELSE generated
       IN  IF k \in Keys
           THEN /\ key' = k
                /\ keyFiles' = SetupDirs(keyFiles, now, k)
                /\ raised' = ""
           ELSE /\ raised' = "ValueError: Fernet key"
                /\ UNCHANGED <<key, keyFiles>>
    /\ UNCHANGED <<now, utcOffset, rawFiles, encFiles, calls>>

\* Number of records in a file of the encrypted stream.
Chunks(items) == Cardinality({i \in 1..Len(items) : items[i].kind = "delim"})

FileOf(files, name) == IF name \in DOMAIN files THEN files[name] ELSE <<>>

\* log_event(event_type, user_data, content, additional_data)
\* (logger.py 39-79).  The clock is read at line 56 (now), at line 57 (t2)
\* and in _save_log at line 83 (t3).
LogEvent(inp, t2, t3, io) ==
    /\ Len(calls) < MaxCalls
    /\ io # "ok" => budget.rare < MaxRare
    /\ budget' = [budget EXCEPT !.rare = IF io # "ok" THEN @ + 1 ELSE @]
    /\ now <= t2 /\ t2 <= t3 /\ t3 <= now + MaxElapse /\ t3 <= MaxTime
    /\ LET e == BuildEntry(key, now, t2, inp.event_type, inp.user, inp.content, inp.ad)
           saved == SaveLog(key, rawFiles, encFiles, t3, e, io)
           day == DateStr(t3)
       IN  /\ rawFiles' = saved.raw
           /\ encFiles' = saved.enc
           /\ raised' = saved.raised
           /\ calls' = calls \o
                << [ entry |-> e, content |-> inp.content, ad |-> inp.ad,
                     part |-> day, key |-> key,
                     rawIdx |-> Len(FileOf(rawFiles, RawName(day))) + 1,
                     encIdx |-> Chunks(FileOf(encFiles, EncName(day))) + 1,
                     raw |-> IF saved.raw # rawFiles THEN "live" ELSE "none",
                     enc |-> IF saved.enc # encFiles THEN "live" ELSE "none",
                     raised |-> saved.raised ] >>
    /\ now' = t3
    /\ UNCHANGED <<utcOffset, key, keyFiles>>

\* A read that opens the file for appending, which makes the file when it
\* is not there.
ReadLogsOpensForAppend(day, decrypt) ==
    /\ LET r == IF decrypt THEN ReadEncrypted(key, encFiles, day)
                ELSE ReadRaw(rawFiles, day)
       IN  raised' = r.raised
    /\ rawFiles' = IF decrypt THEN rawFiles ELSE AppendFile(rawFiles, RawName(day), <<>>)
    /\ encFiles' = IF decrypt THEN AppendFile(encFiles, EncName(day), <<>>) ELSE encFiles
    /\ UNCHANGED <<now, utcOffset, key, keyFiles, calls, budget>>

\* read_logs(date_str, decrypt)
ReadLogs(day, decrypt) ==
    /\ LET r == IF decrypt THEN ReadEncrypted(key, encFiles, day)
                ELSE ReadRaw(rawFiles, day)
       IN  raised' = r.raised
    /\ UNCHANGED <<now, utcOffset, key, rawFiles, encFiles, keyFiles, calls, budget>>

\* get_encryption_key() (logger.py 137-139)
GetEncryptionKey ==
    /\ raised' = ""
    /\ UNCHANGED <<now, utcOffset, key, rawFiles, encFiles, keyFiles, calls, budget>>

\* cleanup_old_logs(days).  os.listdir gives the names in no particular
\* order, so when a name of a log area does not parse, any of the expired
\* files of that area may have been removed before the ValueError ends the
\* call; the areas after it are not reached.
CleanupOldLogs(days) ==
    LET cutoff == Cutoff(now, days)
        rawRaises == Unparsed(rawFiles, ".ndjson") # {}
        encRaises == Unparsed(encFiles, ".enc") # {}
    IN  \E rawGone \in SUBSET Expired(rawFiles, ".ndjson", cutoff),
           encGone \in SUBSET Expired(encFiles, ".enc", cutoff) :
          /\ ~rawRaises => rawGone = Expired(rawFiles, ".ndjson", cutoff)
          /\ rawRaises => encGone = {}
          /\ (~rawRaises /\ ~encRaises) => encGone = Expired(encFiles, ".enc", cutoff)
          /\ rawFiles' = Remove(rawFiles, rawGone)
          /\ encFiles' = Remove(encFiles, encGone)
          /\ keyFiles' = IF rawRaises \/ encRaises THEN keyFiles
                         ELSE Remove(keyFiles, ExpiredKeys(keyFiles, cutoff))
          /\ raised' = IF rawRaises \/ encRaises
                       THEN "ValueError: strptime" ELSE ""
          /\ calls' = [i \in 1..Len(calls) |->
                [calls[i] EXCEPT
                   !.raw = IF RawName(calls[i].part) \in rawGone /\ @ # "none"
                           THEN "purged" ELSE @,
                   !.enc = IF EncName(calls[i].part) \in encGone /\ @ # "none"
                           THEN "purged" ELSE @]]
          /\ UNCHANGED <<now, utcOffset, key, budget>>

----------------------------------------------------------------------------
(* The environment: other writers and a faulty disk. *)

\* A file that is not the logger's appears in one of the areas.
PlaceForeign ==
    /\ budget.rare < MaxRare
    /\ budget' = [budget EXCEPT !.rare = @ + 1]
    /\ \/ \E n \in ForeignLogNames(".ndjson") \ DOMAIN rawFiles :
             /\ rawFiles' = AppendFile(rawFiles, n, <<>>)
             /\ UNCHANGED <<encFiles, keyFiles>>
       \/ \E n \in ForeignLogNames(".enc") \ DOMAIN encFiles :
             /\ encFiles' = AppendFile(encFiles, n, <<>>)
             /\ UNCHANGED <<rawFiles, keyFiles>>
       \/ \E n \in ForeignKeyNames \ DOMAIN keyFiles :
             /\ keyFiles' = [m \in DOMAIN keyFiles \cup {n} |->
                               IF m = n THEN "" ELSE keyFiles[m]]
             /\ UNCHANGED <<rawFiles, encFiles>>
    /\ UNCHANGED <<now, utcOffset, key, raised, calls>>

\* A text cut short: its first half, with no closing brace.
Truncated(text) ==
    [members |-> SubSeq(text.members, 1, Len(text.members) \div 2), closed |-> FALSE]
Blank == [members |-> <<>>, closed |-> FALSE]

\* One line of a redacted file is damaged: cut short, or wiped.
CorruptRaw ==
    /\ budget.rare < MaxRare
    /\ budget' = [budget EXCEPT !.rare = @ + 1]
    /\ \E n \in DOMAIN rawFiles : \E i \in 1..Len(rawFiles[n]) :
          /\ rawFiles[n][i].closed
          /\ \E bad \in {Truncated(rawFiles[n][i]), Blank} :
                rawFiles' = [rawFiles EXCEPT ![n][i] = bad]
          /\ calls' = [j \in 1..Len(calls) |->
                IF calls[j].part = n.stem /\ calls[j].raw = "live" /\ calls[j].rawIdx = i
                THEN [calls[j] EXCEPT !.raw = "damaged"] ELSE calls[j]]
    /\ UNCHANGED <<now, utcOffset, key, encFiles, keyFiles, raised>>

\* One record of an encrypted file is damaged: bytes flipped or cut off (the
\* mac no longer verifies), or a token whose plaintext is a text cut short.
CorruptEnc ==
    /\ budget.rare < MaxRare
    /\ budget' = [budget EXCEPT !.rare = @ + 1]
    /\ \E n \in DOMAIN encFiles : \E i \in 1..Len(encFiles[n]) :
          /\ encFiles[n][i].kind = "token"
          /\ encFiles[n][i].mac = "ok"
          /\ encFiles[n][i].pt.closed
          /\ \E bad \in { [encFiles[n][i] EXCEPT !.mac = "bad"],
                          [encFiles[n][i] EXCEPT !.pt = Truncated(@)] } :
                encFiles' = [encFiles EXCEPT ![n][i] = bad]
          /\ calls' = [j \in 1..Len(calls) |->
                IF /\ calls[j].part = n.stem
                   /\ calls[j].enc = "live"
                   /\ calls[j].encIdx = Chunks(SubSeq(encFiles[n], 1, i)) + 1
                THEN [calls[j] EXCEPT !.enc = "damaged"] ELSE calls[j]]
    /\ UNCHANGED <<now, utcOffset, key, rawFiles, keyFiles, raised>>

Next ==
    \/ Tick
    \/ \E arg \in Keys \cup {"", "not-a-key"}, generated \in Keys :
          Construct(arg, generated)
    \/ \E inp \in Inputs, t2 \in now..(now + MaxElapse), t3 \in now..(now + MaxElapse),
          io \in {"ok", "raw_fails", "enc_fails"} : LogEvent(inp, t2, t3, io)
    \/ \E day \in Days, decrypt \in BOOLEAN : ReadLogs(day, decrypt)
    \/ GetEncryptionKey
    \/ \E days \in 0..MaxDays : CleanupOldLogs(days)
    \/ PlaceForeign
    \/ CorruptRaw
    \/ CorruptEnc

Spec == Init /\ [][Next]_vars

\* The logger fed with the user records of AnonUsers, by one logger or by
\* loggers constructed one after the other; every write succeeds.
AnonNext ==
    \/ Tick
    \/ \E arg \in Keys \cup {""}, generated \in Keys : Construct(arg, generated)
    \/ \E inp \in AnonInputs, t2 \in now..(now + MaxElapse),
          t3 \in now..(now + MaxElapse) : LogEvent(inp, t2, t3, "ok")

SpecAnon == Init /\ [][AnonNext]_vars

----------------------------------------------------------------------------
(* log_event called by concurrent callers (threads or processes) with no   *)
(* lock: the code takes none.  A caller's position is kept in its record   *)
(* of `calls`: raised = "running" until it returns; raw = "none" before    *)
(* the write of lines 90-91, enc = "none" before the write of lines 95-96. *)
(* Each write is one append to a file opened in append mode.               *)

\* Lines 49-83: the entry is built and date_str is read; nothing is written.
LogEventBegin(inp, t2, t3) ==
    /\ Len(calls) < MaxCalls
    /\ now <= t2 /\ t2 <= t3 /\ t3 <= now + MaxElapse /\ t3 <= MaxTime
    /\ calls' = calls \o
          << [ entry |-> BuildEntry(key, now, t2, inp.event_type, inp.user,
                                    inp.content, inp.ad),
               content |-> inp.content, ad |-> inp.ad,
               part |-> DateStr(t3), key |-> key,
               rawIdx |-> 0, encIdx |-> 0,
               raw |-> "none", enc |-> "none", raised |-> "running" ] >>
    /\ now' = t3
    /\ UNCHANGED <<utcOffset, key, rawFiles, encFiles, keyFiles, raised, budget>>

\* Lines 86-91 of caller i: the redacted line is appended.
SaveLogRaw(i) ==
    /\ calls[i].raised = "running" /\ calls[i].raw = "none"
    /\ rawFiles' = AppendFile(rawFiles, RawName(calls[i].part),
                              <<RawLine(calls[i].entry)>>)
    /\ calls' = [calls EXCEPT ![i].raw = "live",
                    ![i].rawIdx = Len(FileOf(rawFiles, RawName(calls[i].part))) + 1]
    /\ UNCHANGED <<now, utcOffset, key, encFiles, keyFiles, raised, budget>>

\* A writer that gives up the encrypted write while another call is running.
SaveLogEncUnlessBusy(i) ==
    /\ calls[i].raised = "running" /\ calls[i].raw = "live" /\ calls[i].enc = "none"
    /\ encFiles' = IF \E j \in 1..Len(calls) : j # i /\ calls[j].raised = "running"
                   THEN encFiles
                   ELSE AppendFile(encFiles, EncName(calls[i].part),
                                   EncRecord(calls[i].key, calls[i].entry))
    /\ calls' = [calls EXCEPT ![i].enc = "live", ![i].raised = "",
                    ![i].encIdx = Chunks(FileOf(encFiles, EncName(calls[i].part))) + 1]
    /\ raised' = ""
    /\ UNCHANGED <<now, utcOffset, key, rawFiles, keyFiles, budget>>

\* Lines 94-96 of caller i: the encrypted record is appended; the call returns.
SaveLogEnc(i) ==
    /\ calls[i].raised = "running" /\ calls[i].raw = "live" /\ calls[i].enc = "none"
    /\ encFiles' = AppendFile(encFiles, EncName(calls[i].part),
                              EncRecord(calls[i].key, calls[i].entry))
    /\ calls' = [calls EXCEPT ![i].enc = "live", ![i].raised = "",
                    ![i].encIdx = Chunks(FileOf(encFiles, EncName(calls[i].part))) + 1]
    /\ raised' = ""
    /\ UNCHANGED <<now, utcOffset, key, rawFiles, keyFiles, budget>>

ConcNext ==
    \/ Tick
    \/ \E inp \in Inputs, t2 \in now..(now + MaxElapse),
          t3 \in now..(now + MaxElapse) : LogEventBegin(inp, t2, t3)
    \/ \E i \in 1..Len(calls) : SaveLogRaw(i)
    \/ \E i \in 1..Len(calls) : SaveLogEnc(i)

SpecConc == Init /\ [][ConcNext]_vars

----------------------------------------------------------------------------
(* What the history says the streams hold. *)

\* The calls whose record is in the partition of `day` and satisfies P.
CallsAt(day, P(_)) == SelectSeq(calls, LAMBDA c : c.part = day /\ P(c))

EntriesOf(cs) == [i \in 1..Len(cs) |-> cs[i].entry]
RedactedOf(cs) == [i \in 1..Len(cs) |-> SafeEntry(cs[i].entry)]

Payload == {"content", "additional_data"}

----------------------------------------------------------------------------
(* C1.  After any sequence of log_event calls, no record of a redacted     *)
(* file has a `content` or an `additional_data` key, and no entry that     *)
(* read_logs(date, decrypt=False) returns has one.                         *)

C1_RedactedHasNoPayload ==
    /\ \A n \in DOMAIN rawFiles : \A i \in 1..Len(rawFiles[n]) :
          \A j \in 1..Len(rawFiles[n][i].members) :
             rawFiles[n][i].members[j][1] \notin Payload
    /\ \A day \in Days :
          LET logs == ReadRaw(rawFiles, day).logs
          IN  \A i \in 1..Len(logs) : DOMAIN logs[i] \cap Payload = {}

\* A call with content and additional data whose redacted record is read back.
C1_Witness ==
    \E i \in 1..Len(calls) :
       /\ calls[i].content # ""
       /\ Truthy(calls[i].ad)
       /\ calls[i].raw = "live"
       /\ Len(ReadRaw(rawFiles, calls[i].part).logs) >= 1

----------------------------------------------------------------------------
(* C2.  For every log_event call that returned, while the logger has the   *)
(* same key and the partition has not been purged (nor its record          *)
(* damaged), read_logs(partition, decrypt=True) holds an entry with the    *)
(* returned event_id whose `content` decrypts to the content passed and    *)
(* whose `additional_data` decrypts to the JSON text of the mapping        *)
(* passed; a field is "" when the content is empty, or the mapping is      *)
(* empty or None.                                                          *)

C2_Recovers(c, e) ==
    /\ e.event_id = c.entry.event_id
    /\ IF c.content = "" THEN e.content = <<>>
       ELSE DecryptOk(key, e.content) /\ DecryptPt(e.content) = c.content
    /\ IF c.ad.is_none \/ c.ad.items = <<>> THEN e.additional_data = <<>>
       ELSE /\ DecryptOk(key, e.additional_data)
            /\ DecryptPt(e.additional_data) = [members |-> c.ad.items, closed |-> TRUE]

C2_RoundTrip ==
    \A i \in 1..Len(calls) :
       LET c == calls[i]
           logs == ReadEncrypted(key, encFiles, c.part).logs
       IN  (c.raised = "" /\ c.key = key /\ c.enc = "live")
              => \E j \in 1..Len(logs) : C2_Recovers(c, logs[j])

\* Two returned calls in one partition, one with content and a mapping, the
\* other with neither, both under the logger's key.
C2_Witness ==
    \E i, j \in 1..Len(calls) :
       /\ i # j
       /\ calls[i].part = calls[j].part
       /\ calls[i].enc = "live" /\ calls[j].enc = "live"
       /\ calls[i].key = key /\ calls[j].key = key
       /\ calls[i].content # "" /\ Truthy(calls[i].ad)
       /\ calls[j].content = "" /\ calls[j].ad.is_none

----------------------------------------------------------------------------
(* C3.  log_event has no partial success: after a call, either it returned *)
(* and its entry is in both files of its partition, or it raised and       *)
(* neither file gained a record.                                           *)

C3_NoPartialSuccess ==
    \A i \in 1..Len(calls) :
       \/ calls[i].raised = "" /\ calls[i].raw # "none" /\ calls[i].enc # "none"
       \/ calls[i].raised # "" /\ calls[i].raw = "none" /\ calls[i].enc = "none"

----------------------------------------------------------------------------
(* C4.  read_logs(date, decrypt=True) over a partition some of whose       *)
(* chunks are corrupt, cut short, not JSON once decrypted, or made under   *)
(* another key returns exactly the entries of the valid chunks, in write   *)
(* order, and does not raise.                                              *)

C4_Valid(c) == c.enc = "live" /\ c.key = key

C4_SkipsBadChunks ==
    \A day \in Days :
       /\ ReadEncrypted(key, encFiles, day).raised = ""
       /\ ReadEncrypted(key, encFiles, day).logs = EntriesOf(CallsAt(day, C4_Valid))

\* A partition whose first chunk is bad (damaged, or under another key) and
\* whose second chunk is valid.
C4_Witness ==
    \E i, j \in 1..Len(calls) :
       /\ i < j
       /\ calls[i].part = calls[j].part
       /\ calls[i].enc = "damaged" \/ (calls[i].enc = "live" /\ calls[i].key # key)
       /\ C4_Valid(calls[j])
       /\ Len(ReadEncrypted(key, encFiles, calls[j].part).logs) = 1

----------------------------------------------------------------------------
(* C5.  read_logs never raises because of one corrupt record, in either    *)
(* mode: a malformed line of the redacted file is skipped and the          *)
(* well-formed records of the partition are returned.                      *)

C5_Valid(c) == c.raw = "live"

C5_SkipsBadLines ==
    \A day \in Days :
       /\ ReadRaw(rawFiles, day).raised = ""
       /\ ReadRaw(rawFiles, day).logs = RedactedOf(CallsAt(day, C5_Valid))
       /\ ReadEncrypted(key, encFiles, day).raised = ""

----------------------------------------------------------------------------
(* C6.  cleanup_old_logs(days=N), run when every file name of the three    *)
(* areas is well-formed, removes from each area exactly the files whose    *)
(* file-name date is before now - N days, leaves every other file as it    *)
(* was, and returns.                                                       *)

WellFormedNames ==
    /\ \A n \in DOMAIN rawFiles : n.ext = ".ndjson" /\ n.stem >= 0
    /\ \A n \in DOMAIN encFiles : n.ext = ".enc" /\ n.stem >= 0
    /\ \A n \in DOMAIN keyFiles : n.pre = "key_" /\ n.ext = ".key" /\ n.stamp >= 0

C6_KeptLogs(files, cutoff) ==
    [n \in {m \in DOMAIN files : m.stem * DayLen >= cutoff} |-> files[n]]

C6_KeptKeys(files, cutoff) ==
    [n \in {m \in DOMAIN files : m.stamp >= cutoff} |-> files[n]]

C6_PurgesExactlyExpired ==
    [][ \A days \in 0..MaxDays :
          (WellFormedNames /\ CleanupOldLogs(days)) =>
             /\ raised' = ""
             /\ rawFiles' = C6_KeptLogs(rawFiles, now - days * DayLen)
             /\ encFiles' = C6_KeptLogs(encFiles, now - days * DayLen)
             /\ keyFiles' = C6_KeptKeys(keyFiles, now - days * DayLen) ]_vars

\* After a purge: in each area an old file is gone and a newer one is kept.
C6_Witness ==
    /\ WellFormedNames
    /\ raised = ""
    /\ KeyName(0) \notin DOMAIN keyFiles
    /\ DOMAIN keyFiles # {}
    /\ \E i, j \in 1..Len(calls) :
          /\ calls[i].raw = "purged" /\ calls[i].enc = "purged"
          /\ calls[j].raw = "live" /\ calls[j].enc = "live"
          /\ RawName(calls[i].part) \notin DOMAIN rawFiles
          /\ EncName(calls[i].part) \notin DOMAIN encFiles
          /\ RawName(calls[j].part) \in DOMAIN rawFiles
          /\ EncName(calls[j].part) \in DOMAIN encFiles

----------------------------------------------------------------------------
(* C7.  In cleanup_old_logs a file of any area whose name does not match   *)
(* the date-stamped pattern is skipped: it is not deleted, the call does   *)
(* not fail, and every expired well-formed file of that area and of the    *)
(* areas after it is deleted.                                              *)

C7_ExpiredLog(n, ext, cutoff) == n.ext = ext /\ n.stem >= 0 /\ n.stem * DayLen < cutoff
C7_ExpiredKey(n, cutoff) ==
    n.pre = "key_" /\ n.ext = ".key" /\ n.stamp >= 0 /\ n.stamp < cutoff

C7_SkipsUnknownNames ==
    [][ \A days \in 0..MaxDays :
          CleanupOldLogs(days) =>
             /\ raised' = ""
             /\ DOMAIN rawFiles' = {n \in DOMAIN rawFiles :
                   ~C7_ExpiredLog(n, ".ndjson", now - days * DayLen)}
             /\ DOMAIN encFiles' = {n \in DOMAIN encFiles :
                   ~C7_ExpiredLog(n, ".enc", now - days * DayLen)}
             /\ DOMAIN keyFiles' = {n \in DOMAIN keyFiles :
                   ~C7_ExpiredKey(n, now - days * DayLen)} ]_vars

----------------------------------------------------------------------------
(* C8.  Every entry is stored in the partition of its own timestamp: for   *)
(* each record of the files of partition date D, the calendar date of the  *)
(* record's timestamp is D.  (The timestamp is a UTC instant; its date is  *)
(* taken here in local time, the reading under which the UTC offset alone  *)
(* does not break the claim.)                                              *)

C8_DateOfTimestamp(e) == (e.timestamp + utcOffset) \div DayLen

C8_PartitionOfTimestamp ==
    \A day \in Days :
       /\ \A i \in 1..Len(FileOf(rawFiles, RawName(day))) :
             LET line == rawFiles[RawName(day)][i]
             IN  JsonLoadsOk(line) => C8_DateOfTimestamp(JsonLoads(line)) = day
       /\ LET logs == ReadEncrypted(key, encFiles, day).logs
          IN  \A i \in 1..Len(logs) : C8_DateOfTimestamp(logs[i]) = day

----------------------------------------------------------------------------
(* C9.  The key store holds one file per construction: a construction      *)
(* adds one key file holding its key and leaves the key files of earlier   *)
(* constructions as they were (so that, absent purge, k constructions      *)
(* leave k key files).                                                     *)

C9_OneKeyFilePerConstruction ==
    [][ \A arg \in Keys \cup {"", "not-a-key"}, generated \in Keys :
          (Construct(arg, generated) /\ raised' = "") =>
             /\ Cardinality(DOMAIN keyFiles') = Cardinality(DOMAIN keyFiles) + 1
             /\ \A n \in DOMAIN keyFiles :
                   n \in DOMAIN keyFiles' /\ keyFiles'[n] = keyFiles[n]
             /\ \E n \in DOMAIN keyFiles' \ DOMAIN keyFiles : keyFiles'[n] = key' ]_vars

----------------------------------------------------------------------------
(* C10.  The event_id identifies the entry: two entries made by two        *)
(* log_event calls have different event_id values.                         *)

C10_EventIdUnique ==
    \A i, j \in 1..Len(calls) :
       i # j => calls[i].entry.event_id # calls[j].entry.event_id

----------------------------------------------------------------------------
(* C11.  Partition files are append-only: in every step of the logger that *)
(* is not a retention purge (a construction, log_event, read_logs,         *)
(* get_encryption_key), every redacted and encrypted file that exists      *)
(* still exists afterwards and its previous content is a prefix of its new *)
(* content.                                                                *)

C11_IsPrefix(old, new) == Len(old) <= Len(new) /\ SubSeq(new, 1, Len(old)) = old

C11_Grows(files, files2) ==
    \A n \in DOMAIN files : n \in DOMAIN files2 /\ C11_IsPrefix(files[n], files2[n])

C11_NonPurgeStep ==
    \/ \E arg \in Keys \cup {"", "not-a-key"}, generated \in Keys :
          Construct(arg, generated)
    \/ \E inp \in Inputs, t2 \in now..(now + MaxElapse), t3 \in now..(now + MaxElapse),
          io \in {"ok", "raw_fails", "enc_fails"} : LogEvent(inp, t2, t3, io)
    \/ \E day \in Days, decrypt \in BOOLEAN : ReadLogs(day, decrypt)
    \/ GetEncryptionKey

C11_AppendOnly ==
    [][ C11_NonPurgeStep =>
           C11_Grows(rawFiles, rawFiles') /\ C11_Grows(encFiles, encFiles') ]_vars

\* A second record has been appended to a partition that held one: the
\* first call's record is still the first of both files.
C11_Witness ==
    \E i, j \in 1..Len(calls) :
       /\ i < j
       /\ calls[i].part = calls[j].part
       /\ calls[i].rawIdx = 1 /\ calls[j].rawIdx = 2
       /\ calls[i].encIdx = 1 /\ calls[j].encIdx = 2
       /\ Len(FileOf(rawFiles, RawName(calls[i].part))) = 2
       /\ Chunks(FileOf(encFiles, EncName(calls[i].part))) = 2
       /\ rawFiles[RawName(calls[i].part)][1] = RawLine(calls[i].entry)
       /\ SubSeq(encFiles[EncName(calls[i].part)], 1, 2)
             = EncRecord(calls[i].key, calls[i].entry)

----------------------------------------------------------------------------
(* C12.  read_logs(date, decrypt=False), on a partition none of whose      *)
(* lines has been damaged, returns without raising the redacted copies of  *)
(* the entries that log_event saved to that partition, in write order (the *)
(* i-th entry returned is the redacted copy of the i-th entry saved); for  *)
(* a date with no file it returns the empty list; in both cases it creates *)
(* no file.                                                                *)

C12_Saved(c) == c.raw = "live"

C12_Undamaged(day) == \A i \in 1..Len(calls) :
                         calls[i].part = day => calls[i].raw # "damaged"

C12_ReadsInWriteOrder ==
    [][ \A day \in Days :
          ReadLogs(day, FALSE) =>
             /\ DOMAIN rawFiles' = DOMAIN rawFiles
             /\ DOMAIN encFiles' = DOMAIN encFiles
             /\ DOMAIN keyFiles' = DOMAIN keyFiles
             /\ RawName(day) \notin DOMAIN rawFiles =>
                   raised' = "" /\ ReadRaw(rawFiles, day).logs = <<>>
             /\ C12_Undamaged(day) =>
                   /\ raised' = ""
                   /\ ReadRaw(rawFiles, day).logs = RedactedOf(CallsAt(day, C12_Saved)) ]_vars

\* A partition holding two different records, read back in the order they
\* were written, while another date has no file and reads as empty.
C12_Witness ==
    /\ raised = ""
    /\ \E i, j \in 1..Len(calls) :
          LET logs == ReadRaw(rawFiles, calls[i].part).logs
          IN  /\ i < j
              /\ calls[i].part = calls[j].part
              /\ C12_Saved(calls[i]) /\ C12_Saved(calls[j])
              /\ SafeEntry(calls[i].entry) # SafeEntry(calls[j].entry)
              /\ Len(logs) = 2
              /\ logs[1] = SafeEntry(calls[i].entry)
              /\ logs[2] = SafeEntry(calls[j].entry)
    /\ \E day \in Days :
          /\ RawName(day) \notin DOMAIN rawFiles
          /\ ReadRaw(rawFiles, day).logs = <<>>

----------------------------------------------------------------------------
(* C13.  In every log entry each of the four user tokens is the anonymizer *)
(* applied to the corresponding raw field of the user record, where the    *)
(* anonymizer gives "anonymous" for a field that is empty, missing or None *)
(* and otherwise the hash token of the field's value alone (so that the    *)
(* same raw value gives the same token in every entry and every logger).   *)

\* The raw value of field k as text; "" when it is missing, None or empty.
C13_Raw(d, k) ==
    IF IsNull(d, k) \/ k \notin DOMAIN d THEN ""
    ELSE IF k = "id" THEN ToString(d[k]) ELSE d[k]

C13_Token(d, k) == IF C13_Raw(d, k) = "" THEN "anonymous" ELSE Sha256Hex12(C13_Raw(d, k))

C13_TokensOfRawFields ==
    [][ \A inp \in AnonInputs, t2 \in now..(now + MaxElapse),
           t3 \in now..(now + MaxElapse) :
          LogEvent(inp, t2, t3, "ok") =>
             LET u == calls'[Len(calls')].entry.user
             IN  /\ u.id_anon = C13_Token(inp.user, "id")
                 /\ u.username_anon = C13_Token(inp.user, "username")
                 /\ u.first_name_anon = C13_Token(inp.user, "first_name")
                 /\ u.last_name_anon = C13_Token(inp.user, "last_name") ]_vars

----------------------------------------------------------------------------
(* C14.  append is not safe under concurrent callers.  With two log_event  *)
(* calls running concurrently and no lock, each call that has returned has *)
(* its record exactly once in each file of its partition, at the place its *)
(* write took: nothing is lost or doubled.  But the two writes of a call   *)
(* are not atomic with respect to the other call, and the state of         *)
(* C14_Witness is reachable, where the redacted file and the encrypted     *)
(* file of one partition list the two events in opposite orders.           *)

C14_Returned(c) == c.raised = ""

C14_EachRecordOnceInEachFile ==
    /\ \A i \in 1..Len(calls) :
          LET c == calls[i]
              raw == FileOf(rawFiles, RawName(c.part))
              enc == Split(FileOf(encFiles, EncName(c.part)))
          IN  C14_Returned(c) =>
                 /\ c.rawIdx \in 1..Len(raw)
                 /\ raw[c.rawIdx] = RawLine(c.entry)
                 /\ c.encIdx \in 1..Len(enc)
                 /\ enc[c.encIdx] = Encrypt(c.key, JsonDumps(c.entry))
    /\ \A i, j \in 1..Len(calls) :
          (i # j /\ calls[i].part = calls[j].part
             /\ C14_Returned(calls[i]) /\ C14_Returned(calls[j]))
          => calls[i].rawIdx # calls[j].rawIdx /\ calls[i].encIdx # calls[j].encIdx
    /\ \A day \in Days :
          (\A i \in 1..Len(calls) : calls[i].part = day => C14_Returned(calls[i]))
          => /\ Len(FileOf(rawFiles, RawName(day))) = Len(CallsAt(day, C14_Returned))
             /\ Chunks(FileOf(encFiles, EncName(day))) = Len(CallsAt(day, C14_Returned))

\* Both calls have returned; the redacted file lists the first caller's
\* event before the second's, the encrypted file the other way round.
C14_Witness ==
    \E i, j \in 1..Len(calls) :
       LET raw == ReadRaw(rawFiles, calls[i].part).logs
           enc == ReadEncrypted(key, encFiles, calls[i].part).logs
       IN  /\ i # j
           /\ calls[i].part = calls[j].part
           /\ C14_Returned(calls[i]) /\ C14_Returned(calls[j])
           /\ calls[i].entry.event_id # calls[j].entry.event_id
           /\ Len(raw) = 2 /\ Len(enc) = 2
           /\ raw[1].event_id = calls[i].entry.event_id
           /\ raw[2].event_id = calls[j].entry.event_id
           /\ enc[1].event_id = calls[j].entry.event_id
           /\ enc[2].event_id = calls[i].entry.event_id

----------------------------------------------------------------------------
(* C15.  Stream pairing.  With one caller at a time and no failed write    *)
(* (and nothing but the logger touching the files), after any sequence of  *)
(* log_event and cleanup_old_logs calls, for every date the redacted file  *)
(* exists iff the encrypted file exists, and the two files hold the same   *)
(* number of records with the same event_id sequence in the same order.    *)

\* No write has failed, no record has been damaged, no foreign file placed.
C15_Undisturbed ==
    /\ WellFormedNames
    /\ \A i \in 1..Len(calls) :
          /\ calls[i].raised = ""
          /\ calls[i].raw # "damaged"
          /\ calls[i].enc # "damaged"

\* The event_id of each record of the two files of a date, in file order.
C15_RawIds(day) ==
    LET lines == FileOf(rawFiles, RawName(day))
    IN  [i \in 1..Len(lines) |-> JsonLoads(lines[i]).event_id]

C15_EncIds(day) ==
    LET chunks == SelectSeq(Split(FileOf(encFiles, EncName(day))),
                            LAMBDA r : Len(r) > 0)
    IN  [i \in 1..Len(chunks) |-> JsonLoads(DecryptPt(chunks[i])).event_id]

C15_StreamsPaired ==
    C15_Undisturbed =>
       \A day \in Days :
          /\ RawName(day) \in DOMAIN rawFiles <=> EncName(day) \in DOMAIN encFiles
          /\ Len(FileOf(rawFiles, RawName(day)))
                = Chunks(FileOf(encFiles, EncName(day)))
          /\ C15_RawIds(day) = C15_EncIds(day)

\* After a purge that removed both files of an old date, a newer date has
\* both files, each with the record of the same event.
C15_Witness ==
    /\ C15_Undisturbed
    /\ \E i, j \in 1..Len(calls) :
          /\ calls[i].raw = "purged" /\ calls[i].enc = "purged"
          /\ RawName(calls[i].part) \notin DOMAIN rawFiles
          /\ EncName(calls[i].part) \notin DOMAIN encFiles
          /\ calls[j].raw = "live" /\ calls[j].enc = "live"
          /\ C15_RawIds(calls[j].part) = <<calls[j].entry.event_id>>
          /\ C15_EncIds(calls[j].part) = <<calls[j].entry.event_id>>

----------------------------------------------------------------------------
(* C16.  Key availability.  After any sequence of constructions, log_event *)
(* calls and cleanup_old_logs calls, every record that remains in an       *)
(* encrypted partition file was encrypted under a key that some file of    *)
(* the key store still holds.                                              *)

C16_KeyInStore(k) == \E n \in DOMAIN keyFiles : keyFiles[n] = k

C16_KeysOfRetainedRecords ==
    \A n \in DOMAIN encFiles : \A i \in 1..Len(encFiles[n]) :
       encFiles[n][i].kind = "token" => C16_KeyInStore(encFiles[n][i].key)

----------------------------------------------------------------------------
(* C17.  cleanup_old_logs(days=N) never removes a log entry younger than   *)
(* the retention period: every record that the call deletes was written at *)
(* least N days before the call's `now`.  (A record is written no earlier  *)
(* than the instant of its timestamp, so the age counted from the          *)
(* timestamp is the greatest age the record can have.)                     *)

\* The local tick at which the entry of call c was stamped (line 56).
C17_StampedAt(c) == c.entry.timestamp + utcOffset

C17_KeepsYoungRecords ==
    [][ \A days \in 0..MaxDays :
          CleanupOldLogs(days) =>
             \A i \in 1..Len(calls) :
                (\/ calls[i].raw # "purged" /\ calls'[i].raw = "purged"
                 \/ calls[i].enc # "purged" /\ calls'[i].enc = "purged")
                => now - C17_StampedAt(calls[i]) >= days * DayLen ]_vars

----------------------------------------------------------------------------
(* C18.  Frame conditions.  read_logs (in either mode, also when it skips  *)
(* corrupt records) and get_encryption_key leave the key store and every   *)
(* redacted and encrypted file as they were.  log_event leaves the key     *)
(* store, the logger's key and every partition file other than the two     *)
(* files of the current date as they were, and a call that returns has     *)
(* appended exactly one record to each of those two files.                 *)

C18_OthersUnchanged(files, files2, name) ==
    /\ DOMAIN files2 \subseteq DOMAIN files \cup {name}
    /\ \A n \in DOMAIN files \ {name} : n \in DOMAIN files2 /\ files2[n] = files[n]

C18_Frame ==
    [][ /\ ( \/ \E day \in Days, decrypt \in BOOLEAN : ReadLogs(day, decrypt)
             \/ GetEncryptionKey )
           => /\ keyFiles' = keyFiles /\ key' = key
              /\ rawFiles' = rawFiles /\ encFiles' = encFiles
        /\ \A inp \in Inputs, t2 \in now..(now + MaxElapse),
              t3 \in now..(now + MaxElapse), io \in {"ok", "raw_fails", "enc_fails"} :
             LogEvent(inp, t2, t3, io) =>
                LET rawName == RawName(DateStr(t3))
                    encName == EncName(DateStr(t3))
                IN  /\ keyFiles' = keyFiles /\ key' = key
                    /\ C18_OthersUnchanged(rawFiles, rawFiles', rawName)
                    /\ C18_OthersUnchanged(encFiles, encFiles', encName)
                    /\ raised' = "" =>
                          /\ rawName \in DOMAIN rawFiles'
                          /\ encName \in DOMAIN encFiles'
                          /\ Len(rawFiles'[rawName]) = Len(FileOf(rawFiles, rawName)) + 1
                          /\ SubSeq(rawFiles'[rawName], 1, Len(FileOf(rawFiles, rawName)))
                                = FileOf(rawFiles, rawName)
                          /\ Chunks(encFiles'[encName])
                                = Chunks(FileOf(encFiles, encName)) + 1
                          /\ SubSeq(encFiles'[encName], 1, Len(FileOf(encFiles, encName)))
                                = FileOf(encFiles, encName) ]_vars

\* A call has returned on a new date while the partition of an earlier date,
\* whose encrypted record is corrupt and is skipped by a read, still has its
\* one record in each file; the key store is as the constructor left it.
C18_Witness ==
    /\ raised = ""
    /\ keyFiles = (KeyName(0) :> key)
    /\ \E i, j \in 1..Len(calls) :
          /\ i < j
          /\ calls[i].part # calls[j].part
          /\ calls[i].raw = "live" /\ calls[i].enc = "damaged"
          /\ calls[j].raw = "live" /\ calls[j].enc = "live" /\ calls[j].raised = ""
          /\ Len(rawFiles[RawName(calls[i].part)]) = 1
          /\ Chunks(encFiles[EncName(calls[i].part)]) = 1
          /\ ReadEncrypted(key, encFiles, calls[i].part).logs = <<>>
          /\ Len(rawFiles[RawName(calls[j].part)]) = 1
          /\ Chunks(encFiles[EncName(calls[j].part)]) = 1

====
